---- MODULE Spec2Model ----
(***************************************************************************)
(* A state-machine model of prettymaps_bot.py: one run of the guessing-game *)
(* bot, from the module-level environment checks to the answer post.        *)
(* External services (places API, reverse geocoder, map renderer, social    *)
(* network) answer nondeterministically from small sets.                    *)
(***************************************************************************)
EXTENDS Integers, Sequences, FiniteSets, TLC

VARIABLES
    env,            \* names of the environment variables that are set
    args,           \* the parsed CLI arguments (Namespace)
    pc,             \* position of the run in the script
    exit_status,    \* -1 while running, else the process's exit status
    error,          \* the uncaught exception: its kind and the line raising it
    net,            \* external services contacted so far
    files,          \* paths of the files the run has on disk
    nb_picks,       \* int(args.nb_picks)
    country,        \* the feature pick_country returned
    otm_depth,      \* nesting depth of the running get_otm_place activation
    rnd_point,      \* rnd_point of the running get_otm_place activation
    otm_resp,       \* r (status code, features) of that activation
    otm_places,     \* features gathered at line 209
    names,          \* display names returned by the geocoder (line 211)
    addresses,      \* address mappings returned by the geocoder (line 211)
    poll_options,   \* line 212
    idx_pick,       \* line 219 (0-based, as in the code; -1 before)
    place,          \* line 220
    preset,         \* line 224
    map_path,       \* line 227
    render_query,   \* the address handed to prettymaps.plot
    media_ids,      \* ids returned by media_post
    publisher_calls, \* media_post and status_post calls issued, failed ones too
    posts,          \* statuses the server has published
    img_toot,       \* id of the status returned at line 235 (0 before)
    poll_toot,      \* id of the status returned at line 250 (0 before)
    fn_in,          \* arguments of a direct create_poll_option call
    fn_out          \* its result

vars == <<env, args, pc, exit_status, error, net, files, nb_picks, country,
          otm_depth, rnd_point, otm_resp, otm_places, names, addresses,
          poll_options, idx_pick, place, preset, map_path, render_query,
          media_ids, publisher_calls, posts, img_toot, poll_toot,
          fn_in, fn_out>>

----------------------------------------------------------------------------
(* Bounds of the model *)

\* CLI values of --nb_picks range over -MaxNbPicksArg..MaxNbPicksArg
MaxNbPicksArg == 6
\* number of distinct features the places API knows
NumFeatures == 2
\* names given to a direct create_poll_option call have 0..MaxNameLen characters
MaxNameLen == 60

(* Program constants *)

MAX_POLL_OPTION_LENGTH == 50

\* the interpreter's limit on nested frames (CPython's default), which the
\* recursive calls of get_otm_place and generate_random_point run into
RecursionLimit == 1000

EnvNames == {"MASTODON_INSTANCE", "MASTODON_ACCESS_TOKEN", "OPENTRIPMAP_API_KEY"}

PRETTYMAPS_PRESETS == {"default", "minimal"}

\* datetime.now().strftime('%Y%m%d-%H%M%S') of the run
Timestamp == "20240101-120000"

----------------------------------------------------------------------------
(* The world outside the program *)

\* world_countries.geojson. A polygon is given by its bounding box
\* <<minx, miny, maxx, maxy>> and the grid points of the box that it contains:
\* Testland leaves a point of its box outside, Squareland fills its box.
WorldCountries ==
    { [ADMIN |-> "Testland",
       polygon |-> [bounds |-> <<0, 0, 1, 0>>, interior |-> {<<0, 0>>}]],
      [ADMIN |-> "Squareland",
       polygon |-> [bounds |-> <<5, 5, 5, 5>>, interior |-> {<<5, 5>>}]] }

NoCountry ==
    [ADMIN |-> "", polygon |-> [bounds |-> <<0, 0, 0, 0>>, interior |-> {}]]

CountryArgs == {"random", "testland", "atlantis"}
PresetArgs == {"default", "random"}

\* str.upper() on the names that occur
Upper(s) ==
    CASE s = "testland"   -> "TESTLAND"
      [] s = "Testland"   -> "TESTLAND"
      [] s = "atlantis"   -> "ATLANTIS"
      [] s = "Squareland" -> "SQUARELAND"
      [] OTHER            -> s

\* names of the features of the places API
OtmNameTable ==
    << "Place A",
       "Grand Old Observatory of the Northern Highlands",
       "Place C",
       "Saint Bartholomew the Great Collegiate Church Ruins" >>

OtmFeature(i) ==
    [xid |-> i,
     properties |-> [name |-> OtmNameTable[i]],
     geometry |-> [type |-> "Point", coordinates |-> <<i, i>>]]

OtmCatalog == { OtmFeature(i) : i \in 1..NumFeatures }

NoFeature ==
    [xid |-> 0,
     properties |-> [name |-> ""],
     geometry |-> [type |-> "", coordinates |-> <<0, 0>>]]

\* responses of the places API, a status code and a feature list: 200 with no
\* feature, with one feature or with every feature, or an error status
OtmResponses ==
    { [status_code |-> 200, features |-> f] :
        f \in {{}} \cup { {x} : x \in OtmCatalog } \cup {OtmCatalog} }
    \cup { [status_code |-> 500, features |-> {}] }

NoResponse == [status_code |-> 0, features |-> {}]

\* address mappings: functions from some of the keys to strings
AddressOfKeys(D) ==
    [k \in D |->
        CASE k = "municipality" -> "Town"
          [] k = "town"         -> "Ville"
          [] k = "state"        -> "Region"
          [] k = "region"       -> "Area"]

AddressKeys == {"municipality", "town", "state", "region"}

AllAddresses == { AddressOfKeys(D) : D \in SUBSET AddressKeys }

\* what the reverse geocoder may answer for a point: display name and address
Geocodings ==
    { [display_name |-> "1 Main Street, Town, Region, Testland",
       address |-> AddressOfKeys({"municipality", "state"})],
      [display_name |-> "Chemin Vert, Ville, Testland",
       address |-> AddressOfKeys({"town"})] }

\* the server's id of the k-th status it publishes
StatusId(k) == 100 + k

NoPoint == <<>>

\* names handed to a direct create_poll_option call: prefixes of a long name
NameStock ==
    "Abcdefghi Jklmnopqr Stuvwxyz0 123456789 abcdefghi jklmnopqr stuvwxyz0 12345678"

NameInputs == { SubSeq(NameStock, 1, k) : k \in 0..MaxNameLen }

NoError == [kind |-> "", line |-> 0]

----------------------------------------------------------------------------
(* Helpers of the script *)

Get(d, k, default) == IF k \in DOMAIN d THEN d[k] ELSE default

\* line 76: the points random.uniform can draw within polygon.bounds
Bounds(polygon) ==
    { <<x, y>> : x \in polygon.bounds[1]..polygon.bounds[3],
                 y \in polygon.bounds[2]..polygon.bounds[4] }

Contains(polygon, point) == point \in polygon.interior

\* generate_random_point: the outcomes of drawing in the bounding box until the
\* polygon contains the draw. Each miss nests one more call, so a run of misses
\* can end in RecursionError (ok = FALSE) whenever the box has points outside.
generate_random_point(polygon) ==
    { [ok |-> TRUE, point |-> p] : p \in { q \in Bounds(polygon) : Contains(polygon, q) } }
    \cup
    ( IF \E q \in Bounds(polygon) : ~Contains(polygon, q)
      THEN { [ok |-> FALSE, point |-> NoPoint] }
      ELSE {} )

\* whether the activation at the given depth can call itself once more:
\* the module frame and depth + 1 activations are on the stack
CanRecurse(depth) == depth + 2 < RecursionLimit

\* create_poll_option (128-136); the first variant compares with < at line 134
create_poll_option_lt(name, address, max_length) ==
    LET city == Get(address, "municipality", Get(address, "town", "somewhere"))
        region == Get(address, "state", Get(address, "region", "somewhere"))
        opt == name \o ", " \o city \o ", " \o region
    IN  IF Len(opt) < max_length
        THEN opt
        ELSE SubSeq(opt, 1, max_length - 2) \o ".."

create_poll_option(name, address, max_length) ==
    LET city == Get(address, "municipality", Get(address, "town", "somewhere"))
        region == Get(address, "state", Get(address, "region", "somewhere"))
        opt == name \o ", " \o city \o ", " \o region
    IN  IF Len(opt) <= max_length
        THEN opt
        ELSE SubSeq(opt, 1, max_length - 2) \o ".."

\* lines 29-37: whether one of the three checks fails; the first variant
\* leaves out the check of lines 35-37
MissingEnvTwoChecks(e) ==
    \/ "MASTODON_INSTANCE" \notin e
    \/ "MASTODON_ACCESS_TOKEN" \notin e

MissingEnv(e) ==
    \/ "MASTODON_INSTANCE" \notin e
    \/ "MASTODON_ACCESS_TOKEN" \notin e
    \/ "OPENTRIPMAP_API_KEY" \notin e

\* line 199; the first variant has the lower limit off by one
NbPicksOutOfRangeLow(n) == n < 1 \/ n > 4

NbPicksOutOfRange(n) == n < 2 \/ n > 4

\* line 210
otm_names == [i \in 1..Len(otm_places) |-> otm_places[i].properties.name]

\* lines 212-215: i runs over range(1, nb_picks + 1) and reads element i - 1,
\* which is element i of a sequence counted from 1
PollOptionsOf(onames, addrs, n) ==
    [i \in 1..n |-> create_poll_option(onames[i], addrs[i], MAX_POLL_OPTION_LENGTH)]

\* line 219: random.randint(1, nb_picks) - 1
IdxPicks(n) == { r - 1 : r \in 1..n }

\* random.sample(population, k): k elements at distinct positions, in any
\* order; the first variant draws with replacement, as random.choices does
RandomChoices(population, k) ==
    { [i \in 1..k |-> population[f[i]]] : f \in [1..k -> 1..Len(population)] }

RandomSample(population, k) ==
    { [i \in 1..k |-> population[f[i]]] :
        f \in { g \in [1..k -> 1..Len(population)] :
                  \A a, b \in 1..k : a # b => g[a] # g[b] } }

\* line 140
ImagePath(p) == "prettymaps_" \o Timestamp \o "_" \o p \o ".png"

\* line 247: os.remove(map_path)
RemoveFile(fs, path) == fs \ {path}

\* line 270: the status the answer is attached to; the first variant attaches
\* it to the image post
AnswerReplyToImage(img, poll) == img

AnswerReplyTo(img, poll) == poll

\* line 268; the first variant ignores idx_pick
AnswerOptionFirst(opts, idx) == opts[1]

AnswerOption(opts, idx) == opts[idx + 1]

\* an exception raised by a publisher call is not caught; the first variant
\* catches it and issues the call again
RetryAfterFailure(at) == at

AfterPublishFailure(at) == "crashed"

----------------------------------------------------------------------------
(* Initial states: any environment, any arguments *)

Init ==
    /\ env \in SUBSET EnvNames
    /\ args \in [country : CountryArgs,
                 nb_picks : (-MaxNbPicksArg)..MaxNbPicksArg,
                 preset : PresetArgs]
    /\ pc = "start"
    /\ exit_status = -1
    /\ error = NoError
    /\ net = {}
    /\ files = {}
    /\ nb_picks = 0
    /\ country = NoCountry
    /\ otm_depth = 0
    /\ rnd_point = NoPoint
    /\ otm_resp = NoResponse
    /\ otm_places = <<>>
    /\ names = <<>>
    /\ addresses = <<>>
    /\ poll_options = <<>>
    /\ idx_pick = -1
    /\ place = NoFeature
    /\ preset = ""
    /\ map_path = ""
    /\ render_query = ""
    /\ media_ids = <<>>
    /\ publisher_calls = <<>>
    /\ posts = <<>>
    /\ img_toot = 0
    /\ poll_toot = 0
    /\ fn_in = [name |-> "", address |-> AddressOfKeys({}), max_length |-> 0]
    /\ fn_out = ""

----------------------------------------------------------------------------
(* Steps of the script *)

\* an uncaught exception ends the process with status 1
Raise(kind, line) ==
    /\ pc' = "crashed"
    /\ error' = [kind |-> kind, line |-> line]
    /\ exit_status' = 1

\* a publisher call that raises
PublishFails(at, line) ==
    /\ pc' = AfterPublishFailure(at)
    /\ error' = [kind |-> "MastodonError", line |-> line]
    /\ exit_status' = 1

\* lines 28-42: the module-level environment checks
CheckEnvironment ==
    /\ pc = "start"
    /\ IF MissingEnv(env)
       THEN pc' = "exited" /\ exit_status' = 1
       ELSE pc' = "main" /\ UNCHANGED exit_status
    /\ UNCHANGED <<env, args, error, net, files, nb_picks, country, otm_depth,
                   rnd_point, otm_resp, otm_places, names, addresses,
                   poll_options, idx_pick, place, preset, map_path,
                   render_query, media_ids, publisher_calls, posts, img_toot,
                   poll_toot, fn_in, fn_out>>

\* lines 188-201: argument parsing and the range check on nb_picks (radius,
\* hours and verbose are integers and a flag that steer no branch)
ParseArguments ==
    /\ pc = "main"
    /\ nb_picks' = args.nb_picks
    /\ IF NbPicksOutOfRange(args.nb_picks)
       THEN pc' = "exited" /\ exit_status' = 1
       ELSE pc' = "pick_country" /\ UNCHANGED exit_status
    /\ UNCHANGED <<env, args, error, net, files, country, otm_depth,
                   rnd_point, otm_resp, otm_places, names, addresses,
                   poll_options, idx_pick, place, preset, map_path,
                   render_query, media_ids, publisher_calls, posts, img_toot,
                   poll_toot, fn_in, fn_out>>

\* lines 203-206 and pick_country (64-71)
PickCountry ==
    /\ pc = "pick_country"
    /\ IF args.country = "random"
       THEN /\ \E c \in WorldCountries : country' = c
            /\ pc' = "get_otm_place"
            /\ UNCHANGED <<error, exit_status>>
       ELSE LET found == { c \in WorldCountries : Upper(c.ADMIN) = Upper(args.country) }
            IN  IF found = {}
                THEN Raise("KeyError", 71) /\ UNCHANGED country
                ELSE /\ country' = CHOOSE c \in found : TRUE
                     /\ pc' = "get_otm_place"
                     /\ UNCHANGED <<error, exit_status>>
    /\ UNCHANGED <<env, args, net, files, nb_picks, otm_depth,
                   rnd_point, otm_resp, otm_places, names, addresses,
                   poll_options, idx_pick, place, preset, map_path,
                   render_query, media_ids, publisher_calls, posts, img_toot,
                   poll_toot, fn_in, fn_out>>

\* an exception leaving get_otm_place unwinds every activation of it
UnwindOtm ==
    /\ otm_depth' = 0
    /\ rnd_point' = NoPoint
    /\ otm_resp' = NoResponse
    /\ UNCHANGED otm_places

\* get_otm_place (82-114), one activation: sample a point, query the places
\* API, then fail, call itself again or return a feature to line 209
GetOtmPlace ==
    /\ pc = "get_otm_place"
    /\ \E smp \in generate_random_point(country.polygon) :
         IF ~smp.ok
         THEN Raise("RecursionError", 79) /\ UnwindOtm /\ UNCHANGED net
         ELSE \E r \in OtmResponses :
              /\ net' = net \cup {"opentripmap"}
              /\ IF r.status_code # 200
                 THEN Raise("AssertionError", 102) /\ UnwindOtm
                 ELSE IF Cardinality(r.features) = 0
                 THEN IF CanRecurse(otm_depth)
                      THEN /\ otm_depth' = otm_depth + 1
                           /\ rnd_point' = smp.point
                           /\ otm_resp' = r
                           /\ UNCHANGED <<pc, error, exit_status, otm_places>>
                      ELSE Raise("RecursionError", 107) /\ UnwindOtm
                 ELSE \/ \E feature \in r.features :
                           /\ feature.geometry.type = "Point"
                           /\ otm_places' = Append(otm_places, feature)
                           /\ otm_depth' = 0
                           /\ rnd_point' = smp.point
                           /\ otm_resp' = r
                           /\ pc' = IF Len(otm_places) + 1 < nb_picks
                                    THEN "get_otm_place"
                                    ELSE "get_nominatim_address"
                           /\ UNCHANGED <<error, exit_status>>
                      \* the feature drawn at line 109 has another geometry
                      \/ Raise("AssertionError", 110) /\ UnwindOtm
    /\ UNCHANGED <<env, args, files, nb_picks, country, names, addresses,
                   poll_options, idx_pick, place, preset, map_path,
                   render_query, media_ids, publisher_calls, posts, img_toot,
                   poll_toot, fn_in, fn_out>>

\* get_nominatim_address (117-125) for the next feature of line 211
GetNominatimAddress ==
    /\ pc = "get_nominatim_address"
    /\ net' = net \cup {"nominatim"}
    /\ rnd_point' = NoPoint
    /\ otm_resp' = NoResponse
    /\ \E count \in 0..2, g \in Geocodings :
         IF count # 1
         THEN Raise("AssertionError", 123) /\ UNCHANGED <<names, addresses>>
         ELSE /\ names' = Append(names, g.display_name)
              /\ addresses' = Append(addresses, g.address)
              /\ pc' = IF Len(names) + 1 < nb_picks
                       THEN "get_nominatim_address"
                       ELSE "create_poll_options"
              /\ UNCHANGED <<error, exit_status>>
    /\ UNCHANGED <<env, args, files, nb_picks, country, otm_depth, otm_places,
                   poll_options, idx_pick, place, preset, map_path,
                   render_query, media_ids, publisher_calls, posts, img_toot,
                   poll_toot, fn_in, fn_out>>

\* lines 212-216
CreatePollOptions ==
    /\ pc = "create_poll_options"
    /\ poll_options' = PollOptionsOf(otm_names, addresses, nb_picks)
    /\ pc' = "select_pick"
    /\ UNCHANGED <<env, args, exit_status, error, net, files, nb_picks, country,
                   otm_depth, rnd_point, otm_resp, otm_places, names, addresses,
                   idx_pick, place, preset, map_path, render_query, media_ids,
                   publisher_calls, posts, img_toot, poll_toot, fn_in, fn_out>>

\* lines 218-226: the correct pick and the preset
SelectPick ==
    /\ pc = "select_pick"
    /\ \E i \in IdxPicks(nb_picks) :
         /\ idx_pick' = i
         /\ place' = otm_places[i + 1]
    /\ IF args.preset = "random"
       THEN \E p \in PRETTYMAPS_PRESETS : preset' = p
       ELSE preset' = args.preset
    /\ pc' = "generate_image"
    /\ UNCHANGED <<env, args, exit_status, error, net, files, nb_picks, country,
                   otm_depth, rnd_point, otm_resp, otm_places, names, addresses,
                   poll_options, map_path, render_query, media_ids,
                   publisher_calls, posts, img_toot, poll_toot, fn_in, fn_out>>

\* line 227 and generate_prettymaps_image (139-142)
GeneratePrettymapsImage ==
    /\ pc = "generate_image"
    /\ render_query' = names[idx_pick + 1]
    /\ net' = net \cup {"renderer"}
    /\ \E plotted \in BOOLEAN :
         IF plotted
         THEN /\ files' = files \cup {ImagePath(preset)}
              /\ map_path' = ImagePath(preset)
              /\ pc' = "media_post"
              /\ UNCHANGED <<error, exit_status>>
         ELSE Raise("RenderError", 141) /\ UNCHANGED <<files, map_path>>
    /\ UNCHANGED <<env, args, nb_picks, country, otm_depth, rnd_point, otm_resp,
                   otm_places, names, addresses, poll_options, idx_pick, place,
                   preset, media_ids, publisher_calls, posts, img_toot,
                   poll_toot, fn_in, fn_out>>

\* lines 230-243: the client and the media upload, the argument of line 237
MediaPost ==
    /\ pc = "media_post"
    /\ net' = net \cup {"mastodon"}
    /\ publisher_calls' = Append(publisher_calls, "media")
    /\ \E ok \in BOOLEAN :
         IF ok
         THEN /\ media_ids' = <<map_path>>
              /\ pc' = "image_post"
              /\ UNCHANGED <<error, exit_status>>
         ELSE PublishFails("media_post", 238) /\ UNCHANGED media_ids
    /\ UNCHANGED <<env, args, files, nb_picks, country, otm_depth, rnd_point,
                   otm_resp, otm_places, names, addresses, poll_options,
                   idx_pick, place, preset, map_path, render_query, posts,
                   img_toot, poll_toot, fn_in, fn_out>>

\* lines 235-247: the image post, then os.remove
ImagePost ==
    /\ pc = "image_post"
    /\ publisher_calls' = Append(publisher_calls, "image")
    /\ \E ok \in BOOLEAN :
         IF ok
         THEN /\ posts' = Append(posts,
                    [kind |-> "image", id |-> StatusId(Len(posts) + 1),
                     in_reply_to_id |-> 0, media_ids |-> media_ids,
                     options |-> <<>>, text |-> country.ADMIN,
                     visibility |-> "public"])
              /\ img_toot' = StatusId(Len(posts) + 1)
              /\ files' = RemoveFile(files, map_path)
              /\ pc' = "poll_post"
              /\ UNCHANGED <<error, exit_status>>
         ELSE PublishFails("image_post", 235) /\ UNCHANGED <<posts, img_toot, files>>
    /\ UNCHANGED <<env, args, net, nb_picks, country, otm_depth, rnd_point,
                   otm_resp, otm_places, names, addresses, poll_options,
                   idx_pick, place, preset, map_path, render_query, media_ids,
                   poll_toot, fn_in, fn_out>>

\* lines 249-263: the poll, in reply to the image post
PollPost ==
    /\ pc = "poll_post"
    /\ publisher_calls' = Append(publisher_calls, "poll")
    /\ \E options \in RandomSample(poll_options, Len(poll_options)), ok \in BOOLEAN :
         IF ok
         THEN /\ posts' = Append(posts,
                    [kind |-> "poll", id |-> StatusId(Len(posts) + 1),
                     in_reply_to_id |-> img_toot, media_ids |-> <<>>,
                     options |-> options, text |-> "",
                     visibility |-> "unlisted"])
              /\ poll_toot' = StatusId(Len(posts) + 1)
              /\ pc' = "answer_post"
              /\ UNCHANGED <<error, exit_status>>
         ELSE PublishFails("poll_post", 250) /\ UNCHANGED <<posts, poll_toot>>
    /\ UNCHANGED <<env, args, net, files, nb_picks, country, otm_depth,
                   rnd_point, otm_resp, otm_places, names, addresses,
                   poll_options, idx_pick, place, preset, map_path,
                   render_query, media_ids, img_toot, fn_in, fn_out>>

\* lines 265-275: the scheduled answer, in reply to the poll
AnswerPost ==
    /\ pc = "answer_post"
    /\ publisher_calls' = Append(publisher_calls, "answer")
    /\ \E ok \in BOOLEAN :
         IF ok
         THEN /\ posts' = Append(posts,
                    [kind |-> "answer", id |-> StatusId(Len(posts) + 1),
                     in_reply_to_id |-> AnswerReplyTo(img_toot, poll_toot),
                     media_ids |-> <<>>, options |-> <<>>,
                     text |-> AnswerOption(poll_options, idx_pick),
                     visibility |-> "unlisted"])
              /\ pc' = "done"
              /\ exit_status' = 0
              /\ UNCHANGED error
         ELSE PublishFails("answer_post", 266) /\ UNCHANGED posts
    /\ UNCHANGED <<env, args, net, files, nb_picks, country, otm_depth,
                   rnd_point, otm_resp, otm_places, names, addresses,
                   poll_options, idx_pick, place, preset, map_path,
                   render_query, media_ids, img_toot, poll_toot, fn_in, fn_out>>

Next ==
    \/ CheckEnvironment
    \/ ParseArguments
    \/ PickCountry
    \/ GetOtmPlace
    \/ GetNominatimAddress
    \/ CreatePollOptions
    \/ SelectPick
    \/ GeneratePrettymapsImage
    \/ MediaPost
    \/ ImagePost
    \/ PollPost
    \/ AnswerPost

Spec == Init /\ [][Next]_vars

----------------------------------------------------------------------------
(* create_poll_option called on its own, on any name and address *)

InitPoll ==
    /\ env = EnvNames
    /\ args = [country |-> "random", nb_picks |-> 3, preset |-> "default"]
    /\ pc = "fn_call"
    /\ exit_status = -1
    /\ error = NoError
    /\ net = {}
    /\ files = {}
    /\ nb_picks = 0
    /\ country = NoCountry
    /\ otm_depth = 0
    /\ rnd_point = NoPoint
    /\ otm_resp = NoResponse
    /\ otm_places = <<>>
    /\ names = <<>>
    /\ addresses = <<>>
    /\ poll_options = <<>>
    /\ idx_pick = -1
    /\ place = NoFeature
    /\ preset = ""
    /\ map_path = ""
    /\ render_query = ""
    /\ media_ids = <<>>
    /\ publisher_calls = <<>>
    /\ posts = <<>>
    /\ img_toot = 0
    /\ poll_toot = 0
    /\ fn_in \in [name : NameInputs, address : AllAddresses,
                  max_length : {MAX_POLL_OPTION_LENGTH}]
    /\ fn_out = ""

CallCreatePollOption ==
    /\ pc = "fn_call"
    /\ fn_out' = create_poll_option(fn_in.name, fn_in.address, fn_in.max_length)
    /\ pc' = "fn_return"
    /\ UNCHANGED <<env, args, exit_status, error, net, files, nb_picks, country,
                   otm_depth, rnd_point, otm_resp, otm_places, names, addresses,
                   poll_options, idx_pick, place, preset, map_path,
                   render_query, media_ids, publisher_calls, posts, img_toot,
                   poll_toot, fn_in>>

NextPoll == CallCreatePollOption

SpecPoll == InitPoll /\ [][NextPoll]_vars

----------------------------------------------------------------------------
(* Properties *)

Range(seq) == { seq[i] : i \in 1..Len(seq) }

Count(seq, x) == Cardinality({ i \in 1..Len(seq) : seq[i] = x })

Kinds(ps) == [i \in 1..Len(ps) |-> ps[i].kind]

PostsOfKind(k) == { i \in 1..Len(posts) : posts[i].kind = k }

Terminated == exit_status # -1

\* C1: whenever one of the three required environment variables is absent,
\* the run goes from the start straight to exit(1): no service is ever
\* contacted, no publisher call is issued and no file is written.
C1_MissingEnvExitsBeforeNetwork ==
    ({"MASTODON_INSTANCE", "MASTODON_ACCESS_TOKEN", "OPENTRIPMAP_API_KEY"} \ env # {})
    => /\ net = {}
       /\ publisher_calls = <<>>
       /\ files = {}
       /\ \/ pc = "start"
          \/ pc = "exited" /\ exit_status = 1

C1_Witness ==
    /\ env = {"MASTODON_INSTANCE", "MASTODON_ACCESS_TOKEN"}
    /\ pc = "exited"
    /\ exit_status = 1

\* C2: with the environment complete and nb_picks outside 2..4, the run ends
\* with exit(1) right after parsing: no country is selected, no service is
\* contacted and no publisher call is issued.
C2_NbPicksOutOfRangeExits ==
    (env = EnvNames /\ (args.nb_picks < 2 \/ args.nb_picks > 4))
    => /\ net = {}
       /\ country = NoCountry
       /\ publisher_calls = <<>>
       /\ \/ pc \in {"start", "main"}
          \/ pc = "exited" /\ exit_status = 1

C2_Witness ==
    /\ env = EnvNames
    /\ args.nb_picks = 1
    /\ nb_picks = 1
    /\ pc = "exited"
    /\ exit_status = 1

\* C3: a run that completes has issued exactly three status posts, image then
\* poll then answer, all published; the poll replies to the image post's id,
\* the answer to the poll post's id; and the rendered file is gone.
C3_ThreePostsInReplyChain ==
    (pc = "done")
    => /\ publisher_calls = <<"media", "image", "poll", "answer">>
       /\ Kinds(posts) = <<"image", "poll", "answer">>
       /\ posts[1].in_reply_to_id = 0
       /\ posts[2].in_reply_to_id = posts[1].id
       /\ posts[3].in_reply_to_id = posts[2].id
       /\ posts[2].id # posts[1].id
       /\ posts[1].media_ids = <<map_path>>
       /\ map_path # ""
       /\ map_path \notin files

C3_Witness ==
    /\ pc = "done"
    /\ nb_picks = 2
    /\ Len(posts) = 3
    /\ exit_status = 0

\* C4: once the renderer has written the image, a terminated process never
\* leaves the file behind.
C4_FileNeverRetained ==
    (Terminated /\ map_path # "") => map_path \notin files

\* C5: from the poll post on, nb_picks candidates have been gathered, they are
\* pairwise distinct, and no other option has the string of the correct one.
C5_ExactlyOneCorrectOption ==
    (pc \in {"poll_post", "answer_post", "done"})
    => /\ Len(otm_places) = nb_picks
       /\ \A i, j \in 1..Len(otm_places) :
            i # j => otm_places[i] # otm_places[j]
       /\ \A i \in 1..Len(poll_options) :
            i # idx_pick + 1 => poll_options[i] # poll_options[idx_pick + 1]

\* "{name}, {city}, {region}" with the fallbacks of lines 131-132
Formatted(name, address) ==
    LET city == IF "municipality" \in DOMAIN address THEN address["municipality"]
                ELSE IF "town" \in DOMAIN address THEN address["town"]
                ELSE "somewhere"
        region == IF "state" \in DOMAIN address THEN address["state"]
                  ELSE IF "region" \in DOMAIN address THEN address["region"]
                  ELSE "somewhere"
    IN  name \o ", " \o city \o ", " \o region

\* C6: create_poll_option with max_length 50 returns the formatted string
\* itself when it has at most 50 characters, and otherwise its first 48
\* characters followed by "..", 50 characters in all.
C6_PollOptionTruncation ==
    (pc = "fn_return")
    => LET f == Formatted(fn_in.name, fn_in.address)
       IN  /\ Len(f) > 50 => /\ Len(fn_out) = 50
                             /\ fn_out = SubSeq(f, 1, 48) \o ".."
           /\ Len(f) <= 50 => fn_out = f

C6_Witness ==
    /\ pc = "fn_return"
    /\ Len(Formatted(fn_in.name, fn_in.address)) > 50
    /\ Len(fn_out) = 50
    /\ SubSeq(fn_out, 49, 50) = ".."

\* C7: the options of the published poll are a permutation of poll_options
\* (same length nb_picks, every string as often), they hold the correct
\* answer's option, and poll_options is still the list built at line 212.
C7_PollIsPermutation ==
    \A k \in PostsOfKind("poll") :
        /\ Len(posts[k].options) = nb_picks
        /\ Len(poll_options) = nb_picks
        /\ \A x \in Range(poll_options) \cup Range(posts[k].options) :
             Count(posts[k].options, x) = Count(poll_options, x)
        /\ poll_options[idx_pick + 1] \in Range(posts[k].options)
        /\ poll_options =
             [i \in 1..nb_picks |->
                create_poll_option(otm_places[i].properties.name, addresses[i], 50)]

C7_Witness ==
    /\ nb_picks = 3
    /\ \E k \in PostsOfKind("poll") :
         /\ posts[k].options # poll_options
         /\ posts[k].options[1] = poll_options[3]
         /\ posts[k].options[2] # poll_options[2]

\* what a failed publisher call leaves behind: each call issued once, none
\* after the failed one, and the posts published before it still there
C8_FailureState ==
    /\ \A c \in Range(publisher_calls) : Count(publisher_calls, c) = 1
    /\ error.kind = "MastodonError" => pc = "crashed" /\ exit_status = 1
    /\ error.line = 238 => /\ publisher_calls = <<"media">>
                           /\ posts = <<>>
    /\ error.line = 235 => /\ publisher_calls = <<"media", "image">>
                           /\ posts = <<>>
    /\ error.line = 250 => /\ publisher_calls = <<"media", "image", "poll">>
                           /\ Kinds(posts) = <<"image">>
    /\ error.line = 266 => /\ publisher_calls = <<"media", "image", "poll", "answer">>
                           /\ Kinds(posts) = <<"image", "poll">>

\* C8: a publisher call that raises ends the run: no call is issued twice, the
\* calls after the failed one are never issued, the posts published before it
\* stay published, and no step follows the failure.
C8_PublisherFailureIsFatal ==
    /\ []C8_FailureState
    /\ [][/\ pc # "crashed"
          /\ Len(posts') >= Len(posts)
          /\ SubSeq(posts', 1, Len(posts)) = posts]_vars

C8_Witness ==
    /\ pc = "crashed"
    /\ error = [kind |-> "MastodonError", line |-> 250]
    /\ Len(posts) = 1
    /\ posts[1].kind = "image"

\* C9: in get_otm_place an empty 200 response never ends the run: no exception
\* leaves the retry call of line 107, an empty response leaves a retry pending,
\* every query is made around a point inside the polygon, a returned feature
\* comes from the response of the returning activation, and a non-200
\* response ends the run at line 102.
C9_EmptyResultNeverFails ==
    /\ ~(error.kind = "RecursionError" /\ error.line = 107)
    /\ (otm_resp.status_code = 200 /\ otm_resp.features = {})
         => pc = "get_otm_place" /\ otm_depth >= 1
    /\ rnd_point # NoPoint => rnd_point \in country.polygon.interior
    /\ (otm_resp.status_code = 200 /\ otm_resp.features # {})
         => /\ otm_depth = 0
            /\ Len(otm_places) >= 1
            /\ otm_places[Len(otm_places)] \in otm_resp.features
    /\ error.line = 102 => pc = "crashed" /\ error.kind = "AssertionError"

\* C10: idx_pick lies in 0..nb_picks-1; the place, the address given to the
\* renderer and the option of the answer post all belong to candidate
\* idx_pick; and option i is built from the name and address of candidate i.
C10_CorrectIndexConsistent ==
    /\ idx_pick # -1 =>
         /\ idx_pick \in 0..(nb_picks - 1)
         /\ place = otm_places[idx_pick + 1]
    /\ render_query # "" => render_query = names[idx_pick + 1]
    /\ \A k \in PostsOfKind("answer") :
         posts[k].text =
            create_poll_option(otm_places[idx_pick + 1].properties.name,
                               addresses[idx_pick + 1], 50)
    /\ poll_options # <<>> =>
         \A i \in 1..nb_picks :
            poll_options[i] =
               create_poll_option(otm_places[i].properties.name, addresses[i], 50)

C10_Witness ==
    /\ pc = "done"
    /\ nb_picks = 4
    /\ idx_pick = 3
    /\ render_query = names[4]
    /\ poll_options[4] # poll_options[1]
    /\ \E k \in PostsOfKind("answer") : posts[k].text = poll_options[4]

====
